---- MODULE Spec2Model ----
(***************************************************************************)
(* notify-tail (src/notify-tail.c): a tailer that follows files through    *)
(* inotify and hands every completed line to a notification sink.          *)
(*                                                                         *)
(* The model holds the tailer's registry (the file_watches list), the      *)
(* kernel objects the tailer talks to (open descriptors, inotify watches,  *)
(* the inotify event queue), a small file system, and a writer process     *)
(* that creates, appends to, truncates and deletes files.                  *)
(*                                                                         *)
(* Strings are sequences of one-character strings (a path) or sequences of *)
(* byte values (file contents, lines), so that strchr, strrchr, strncmp    *)
(* and strcmp are computed as the C code computes them.                    *)
(***************************************************************************)
EXTENDS Integers, Sequences, FiniteSets, TLC

VARIABLES
    watches,   \* the file_watches list, in list order (struct file_watch)
    fdtab,     \* kernel: open file descriptors, fd -> [obj, pos]
    kwatch,    \* kernel: live inotify watches, wd -> [obj, mask]
    nextWd,    \* kernel: the next watch descriptor inotify hands out
    queue,     \* kernel: events queued on inotify_fd, not yet read
    batch,     \* read_events: the events read into buffer[], not yet handled
    handled,   \* every call of handle_line so far: [w |-> entry, line |-> bytes]
    dirs,      \* file system: the directories that exist (normalised paths)
    links,     \* file system: normalised path -> inode, for the files that exist
    content,   \* file system: inode -> bytes (kept while a descriptor may read it)
    script,    \* writer: the operations a scripted writer still has to do
    nops,      \* writer: the number of operations the free writer has done
    last,      \* the step taken last (for stating claims about one step)
    pc         \* main: where it is (at), its arguments (argv), what
               \* inotify_init returned (ifd), and its exit status (status)

vars == <<watches, fdtab, kwatch, nextWd, queue, batch, handled,
          dirs, links, content, script, nops, last, pc>>

----------------------------------------------------------------------------
(* Bounds of the model.                                                    *)

\* The line buffer's capacity. The program's value is 4096
\* (src/notify-tail.c:14); the model runs the same code on a smaller buffer.
LINE_BUFFER_SIZE == 8
\* The longest byte sequence fed to one line buffer in SpecLines.
MaxInput == 9
\* The longest file the free writer builds.
MaxFileLen == 4
\* The number of operations the free writer performs.
MaxOps == 3
\* The writer waits while this many events are queued and unread.
MaxQueue == 3

----------------------------------------------------------------------------
(* Bytes and C strings.                                                    *)

NUL == 0
LF == 10

Min(S) == CHOOSE x \in S : \A y \in S : x <= y

\* The C string that starts at s[1], when s is followed by a NUL terminator.
CStr(s) ==
    LET z == {k \in 1..Len(s) : s[k] = NUL}
    IN  IF z = {} THEN s ELSE SubSeq(s, 1, Min(z) - 1)

\* strchr(&s[from], '\n') on the NUL-terminated buffer s: the index of the
\* first '\n' at or after from that no NUL precedes, 0 for NULL.
StrchrLF(s, from) ==
    LET stop == {k \in from..Len(s) : s[k] = LF \/ s[k] = NUL}
    IN  IF stop = {} THEN 0
        ELSE IF s[Min(stop)] = LF THEN Min(stop) ELSE 0

\* The last index of c in s, 0 when s does not contain c (strrchr).
Strrchr(s, c) ==
    LET at == {k \in 1..Len(s) : s[k] = c}
    IN  IF at = {} THEN 0 ELSE CHOOSE k \in at : \A j \in at : j <= k

----------------------------------------------------------------------------
(* The line buffer: handle_lines and do_read on line_buffer_data.           *)
(* The buffer is held as its first line_buffer_pos bytes; the byte after    *)
(* them is the NUL do_read writes (line 105).                               *)

RECURSIVE ScanLines(_, _, _)
\* One turn of handle_lines' while loop, end being what strchr returned.
ScanFrom(s, start, acc, end) ==
    IF end = 0 THEN [start |-> start, lines |-> acc]
    ELSE ScanLines(s, end + 1, Append(acc, SubSeq(s, start, end - 1)))

\* The while loop of handle_lines: start is the index where the next line
\* begins, acc the lines passed to handle_line so far.
ScanLines(s, start, acc) == ScanFrom(s, start, acc, StrchrLF(s, start))

\* handle_lines splitting only a buffer of more than LINE_BUFFER_SIZE - 1
\* bytes.
SplitLongLate(data, lines) ==
    IF Len(data) > LINE_BUFFER_SIZE - 1
    THEN [data |-> <<>>, lines |-> Append(lines, CStr(data))]
    ELSE [data |-> data, lines |-> lines]

\* The end of handle_lines: a buffer with LINE_BUFFER_SIZE - 1 bytes and no
\* line in it is passed to handle_line as it is, and emptied.
SplitLong(data, lines) ==
    IF Len(data) >= LINE_BUFFER_SIZE - 1
    THEN [data |-> <<>>, lines |-> Append(lines, CStr(data))]
    ELSE [data |-> data, lines |-> lines]

\* The middle of handle_lines: what follows the last line moves to the front.
MoveRest(data, sc) ==
    SplitLong(IF sc.start # 1 THEN SubSeq(data, sc.start, Len(data)) ELSE data,
              sc.lines)

\* handle_lines: the lines passed to handle_line, in order, and the buffer
\* left behind.
handle_lines(data) == MoveRest(data, ScanLines(data, 1, <<>>))

\* The byte count do_read asks read() for.
ReadCount(data) == LINE_BUFFER_SIZE - Len(data) - 1

\* do_read followed by handle_lines, when read() returned chunk (not empty).
ReadChunk(data, chunk) == handle_lines(data \o chunk)

RECURSIVE ReadLoop(_, _, _, _)
ReadOn(bytes, pos, r, acc) == ReadLoop(bytes, pos, r.data, acc \o r.lines)

\* One turn of read_watch's loop, read() returning n bytes.
ReadTurn(bytes, pos, data, acc, n) ==
    IF n <= 0 THEN [pos |-> pos, data |-> data, lines |-> acc]
    ELSE ReadOn(bytes, pos + n, ReadChunk(data, SubSeq(bytes, pos + 1, pos + n)), acc)

\* while (do_read(watch)) handle_lines(watch): bytes is the file, pos the
\* descriptor's position. Every read returns what the file holds, up to the
\* count asked for; a read of nothing ends the loop.
ReadLoop(bytes, pos, data, acc) ==
    ReadTurn(bytes, pos, data, acc,
             IF Len(bytes) - pos < ReadCount(data)
             THEN Len(bytes) - pos ELSE ReadCount(data))

----------------------------------------------------------------------------
(* The kernel, as the system calls of the program see it. S is the record   *)
(* of the state (one field per variable the tailer or the kernel changes).  *)

NoObj      == [kind |-> "none", path |-> <<>>, ino |-> 0]
DirObj(p)  == [kind |-> "dir",  path |-> p,    ino |-> 0]
FileObj(n) == [kind |-> "file", path |-> <<>>, ino |-> n]

\* The index of the first slash of s, Len(s) + 1 when it has none.
FirstSlash(s) ==
    IF \E k \in 1..Len(s) : s[k] = "/"
    THEN Min({k \in 1..Len(s) : s[k] = "/"}) ELSE Len(s) + 1

RECURSIVE Split(_)
SplitAt(s, n) == <<SubSeq(s, 1, n - 1)>> \o Split(SubSeq(s, n, Len(s)))

\* The components of a path: the runs of characters between slashes.
Split(s) ==
    IF s = <<>> THEN <<>>
    ELSE IF Head(s) = "/" THEN Split(Tail(s))
    ELSE SplitAt(s, FirstSlash(s))

\* What the normalised path p names; a path written with a slash at its end
\* names a directory only.
Resolve(S, p, mayBeFile) ==
    IF p \in S.dirs THEN DirObj(p)
    ELSE IF p \in DOMAIN S.links /\ mayBeFile THEN FileObj(S.links[p])
    ELSE NoObj

\* Path resolution, as open() and inotify_add_watch() do it. The working
\* directory is the root, so "x" and "/x" name the same file; the empty
\* path names nothing (ENOENT).
Lookup(S, name) ==
    IF name = <<>> THEN NoObj
    ELSE Resolve(S, Split(name), name[Len(name)] # "/")

\* The size fstat() and lseek(SEEK_END) report.
ObjSize(S, obj) == IF obj.kind = "file" THEN Len(S.content[obj.ino]) ELSE 0

\* The kernel queues an event; an event equal to the newest queued one is
\* merged with it (inotify coalesces identical successive events).
Enqueue(S, ev) ==
    IF S.queue # <<>> /\ S.queue[Len(S.queue)] = ev THEN S
    ELSE [S EXCEPT !.queue = Append(@, ev)]

Event(wd, mask, name) == [wd |-> wd, mask |-> mask, name |-> name]

\* The watches on obj: inotify keeps at most one per object.
WatchesOn(S, obj) == {wd \in DOMAIN S.kwatch : S.kwatch[wd].obj = obj}

NotifyTo(S, ws, mask, name) ==
    IF ws = {} THEN S ELSE Enqueue(S, Event(CHOOSE wd \in ws : TRUE, mask, name))

\* Something of the kinds in mask happened to obj: the watch on obj, if it
\* asked for one of these kinds, gets the event.
Notify(S, obj, mask, name) ==
    NotifyTo(S, {wd \in WatchesOn(S, obj) : S.kwatch[wd].mask \cap mask # {}},
             mask, name)

DirMask  == {"IN_CREATE", "IN_MOVED_TO"}
FileMask == {"IN_MODIFY", "IN_MOVE_SELF", "IN_DELETE_SELF"}

\* The object is watched already: its watch gets the new mask and its
\* descriptor is returned.
Rewatch(S, wd, mask) == [s |-> [S EXCEPT !.kwatch[wd].mask = mask], wd |-> wd]

AddWatchOn(S, obj, mask, old) ==
    IF old # {} THEN Rewatch(S, CHOOSE wd \in old : TRUE, mask)
    ELSE [s  |-> [S EXCEPT !.kwatch = @ @@ (S.nextWd :> [obj |-> obj, mask |-> mask]),
                           !.nextWd = @ + 1],
          wd |-> S.nextWd]

AddWatchTo(S, obj, mask, ok) ==
    IF ~ok \/ obj = NoObj THEN [s |-> S, wd |-> -1]
    ELSE AddWatchOn(S, obj, mask, WatchesOn(S, obj))

\* inotify_add_watch(inotify_fd, name, mask): -1 when the path names nothing
\* or the kernel refuses (ok = FALSE: ENOSPC, ENOMEM); the descriptor of the
\* watch the object already has, with its mask replaced; or a new descriptor.
inotify_add_watch(S, name, mask, ok) == AddWatchTo(S, Lookup(S, name), mask, ok)

\* inotify_rm_watch(inotify_fd, wd): a live watch is removed and IN_IGNORED
\* is queued for it; any other wd is EINVAL and changes nothing.
inotify_rm_watch(S, wd) ==
    IF wd \notin DOMAIN S.kwatch THEN S
    ELSE Enqueue([S EXCEPT !.kwatch = [w \in DOMAIN @ \ {wd} |-> @[w]]],
                 Event(wd, {"IN_IGNORED"}, <<>>))

\* The descriptor inotify_init() returned: the first one after stdin, stdout
\* and stderr.
inotify_fd == 3

\* The lowest descriptor that is not open.
FreeFd(S) ==
    Min((inotify_fd + 1 .. inotify_fd + 1 + Cardinality(DOMAIN S.fdtab))
        \ DOMAIN S.fdtab)

OpenAs(S, obj, fd) ==
    [s |-> [S EXCEPT !.fdtab = @ @@ (fd :> [obj |-> obj, pos |-> 0])], fd |-> fd]

OpenObj(S, obj, ok) ==
    IF ~ok \/ obj = NoObj THEN [s |-> S, fd |-> -1] ELSE OpenAs(S, obj, FreeFd(S))

\* open(name, O_RDONLY): -1 when the path names nothing or the kernel
\* refuses (ok = FALSE: EMFILE, EACCES); else the lowest free descriptor.
open(S, name, ok) == OpenObj(S, Lookup(S, name), ok)

\* close(fd): EBADF for a descriptor that is not open.
close(S, fd) ==
    IF fd \notin DOMAIN S.fdtab THEN S
    ELSE [S EXCEPT !.fdtab = [f \in DOMAIN @ \ {fd} |-> @[f]]]

----------------------------------------------------------------------------
(* The tailer. An entry of the registry is a struct file_watch; parent is   *)
(* the index of the parent's entry (0 for NULL). Three fields are not in    *)
(* the struct: is_file is the argument init_watch was called with, hist is  *)
(* the sequence of states ("U" unwatched, "W" watching) the entry has been  *)
(* in, read_from is where the last read_watch began to read, truncated is   *)
(* whether that read_watch printed its truncation warning (line 117), and   *)
(* warned is whether any read_watch of the entry has printed it.            *)

Watching(w) == w.fd >= 0 /\ w.watch_desc >= 0

StateOf(w) == IF Watching(w) THEN "W" ELSE "U"

\* Records the entry's state in its history when the state has changed.
Note(w) ==
    IF w.hist[Len(w.hist)] = StateOf(w) THEN w
    ELSE [w EXCEPT !.hist = Append(@, StateOf(w))]

\* What the system calls inside one reinit_file do: whether open succeeds on
\* an existing file, whether inotify_add_watch succeeds on the file, and on
\* the parent directory.
AllOk == [open |-> TRUE, add |-> TRUE, addDir |-> TRUE]
OutcomeFor(ocs, k) == IF k \in DOMAIN ocs THEN ocs[k] ELSE AllOk

find_watch(S, wd) ==
    IF \E k \in 1..Len(S.watches) : S.watches[k].watch_desc = wd
    THEN Min({k \in 1..Len(S.watches) : S.watches[k].watch_desc = wd}) ELSE 0

find_watch_by_name(S, name) ==
    IF \E k \in 1..Len(S.watches) : S.watches[k].name = name
    THEN Min({k \in 1..Len(S.watches) : S.watches[k].name = name}) ELSE 0

\* The end of init_watch: the entry is appended with the descriptor a.wd.
NewEntry(a, name, is_file) ==
    [a.s EXCEPT !.watches = Append(@,
        [name |-> name, is_file |-> is_file, watch_desc |-> a.wd,
         parent |-> 0, fd |-> -1, file_offset |-> 0,
         line_buffer_data |-> <<>>, hist |-> <<"U">>, read_from |-> -1,
         truncated |-> FALSE, warned |-> FALSE])]

\* init_watch appends the entry; its index is the new length of the list.
init_watch(S, name, is_file, addOk) ==
    NewEntry(IF is_file THEN [s |-> S, wd |-> -1]
             ELSE inotify_add_watch(S, name, DirMask, addOk),
             name, is_file)

\* wait_for_parent, after init_watch: the new entry is the parent.
ParentIsLast(T, i) == [T EXCEPT !.watches[i].parent = Len(T.watches)]

\* wait_for_parent, after find_watch_by_name returned p.
ParentFound(S, i, path, p, addOk) ==
    IF p # 0 THEN [S EXCEPT !.watches[i].parent = p]
    ELSE ParentIsLast(init_watch(S, path, FALSE, addOk), i)

\* wait_for_parent, after strrchr returned end.
ParentAt(S, i, name, end, addOk) ==
    IF end = 0 THEN S
    ELSE ParentFound(S, i, SubSeq(name, 1, end - 1),
                     find_watch_by_name(S, SubSeq(name, 1, end - 1)), addOk)

\* wait_for_parent with lines 184-185 and 194-196 left out: it does not
\* look for the parent it has, and registers a new one each time.
wait_for_parent_again(S, i, addOk) ==
    IF Strrchr(S.watches[i].name, "/") = 0 THEN S
    ELSE ParentIsLast(init_watch(S, SubSeq(S.watches[i].name, 1,
                                           Strrchr(S.watches[i].name, "/") - 1),
                                 FALSE, addOk), i)

wait_for_parent(S, i, addOk) ==
    IF S.watches[i].parent # 0 THEN S
    ELSE ParentAt(S, i, S.watches[i].name, Strrchr(S.watches[i].name, "/"), addOk)

\* The assignments of file_deleted.
Forget(T, i) ==
    [T EXCEPT !.watches[i] =
        Note([@ EXCEPT !.fd = -1, !.watch_desc = -1, !.file_offset = 0,
                       !.line_buffer_data = <<>>])]

file_deleted(S, i) ==
    Forget(close(inotify_rm_watch(S, S.watches[i].watch_desc), S.watches[i].fd), i)

\* lseek(fd, 0, SEEK_SET) in the place of line 236's SEEK_END: a new
\* descriptor is left at the start of its file.
SeekStart(S, fd) == [s |-> S, off |-> 0]

\* lseek(fd, 0, SEEK_END).
SeekEnd(S, fd) ==
    [s   |-> [S EXCEPT !.fdtab[fd].pos = ObjSize(S, S.fdtab[fd].obj)],
     off |-> ObjSize(S, S.fdtab[fd].obj)]

\* reinit_file, lines 218-223: the stale descriptor and watch are given up.
reinit_drop(S, i) ==
    [(IF S.watches[i].watch_desc >= 0
      THEN inotify_rm_watch(IF S.watches[i].fd >= 0 THEN close(S, S.watches[i].fd) ELSE S,
                            S.watches[i].watch_desc)
      ELSE IF S.watches[i].fd >= 0 THEN close(S, S.watches[i].fd) ELSE S)
     EXCEPT !.watches[i] = Note([@ EXCEPT !.fd = -1, !.watch_desc = -1])]

\* reinit_file, line 236: the offset is the end of the file.
reinit_seek(e, i) ==
    [e.s EXCEPT !.watches[i] = Note([@ EXCEPT !.file_offset = e.off])]

\* reinit_file, lines 234-239, a being what inotify_add_watch returned.
reinit_watched(a, i, fd) ==
    IF a.wd < 0 THEN [a.s EXCEPT !.watches[i].watch_desc = a.wd]
    ELSE reinit_seek(SeekEnd([a.s EXCEPT !.watches[i].watch_desc = a.wd], fd), i)

\* reinit_file, lines 228-234, o being what open returned.
reinit_opened(S, o, i, oc) ==
    IF o.fd < 0 THEN S
    ELSE reinit_watched(
            inotify_add_watch([o.s EXCEPT !.watches[i].fd = o.fd],
                              S.watches[i].name, FileMask, oc.add),
            i, o.fd)

\* reinit_file, from line 227 on.
reinit_open(S, i, oc) == reinit_opened(S, open(S, S.watches[i].name, oc.open), i, oc)

reinit_file(S, i, oc) ==
    reinit_open(wait_for_parent(reinit_drop(S, i), i, oc.addDir), i, oc)

\* read_watch, line 125 and what the loop changed.
read_watch_done(S, i, fd, from, r) ==
    [S EXCEPT !.fdtab[fd].pos = r.pos,
              !.watches[i] = [@ EXCEPT !.file_offset = r.pos,
                                       !.line_buffer_data = r.data,
                                       !.read_from = from,
                                       !.truncated = (ObjSize(S, S.fdtab[fd].obj)
                                                         < S.watches[i].file_offset),
                                       !.warned = @ \/ (ObjSize(S, S.fdtab[fd].obj)
                                                         < S.watches[i].file_offset)],
              !.handled = @ \o [k \in 1..Len(r.lines) |->
                                  [w |-> i, line |-> r.lines[k]]]]

\* read_watch, lines 122-123: the loop, from the position from. Reading a
\* directory fails (EISDIR).
read_watch_loop(S, i, fd, obj, from) ==
    read_watch_done(S, i, fd, from,
        IF obj.kind = "file"
        THEN ReadLoop(S.content[obj.ino], from, S.watches[i].line_buffer_data, <<>>)
        ELSE [pos |-> from, data |-> S.watches[i].line_buffer_data, lines |-> <<>>])

\* read_watch with the lseek of line 119 done whatever the file's size: it
\* reads the file from its start each time.
read_watch_rewind(S, i, fd, f) == read_watch_loop(S, i, fd, f.obj, 0)

\* read_watch with lines 115-120 left out: it reads on from where the
\* descriptor is, whatever the file's size.
read_watch_no_rewind(S, i, fd, f) == read_watch_loop(S, i, fd, f.obj, f.pos)

\* read_watch, lines 115-120, f being the open descriptor: fstat and, for a
\* file shorter than file_offset, lseek(fd, 0, SEEK_SET).
read_watch_open(S, i, fd, f) ==
    read_watch_loop(S, i, fd, f.obj,
        IF ObjSize(S, f.obj) < S.watches[i].file_offset THEN 0 ELSE f.pos)

\* read_watch: with no open descriptor fstat, lseek and read all fail
\* (EBADF), and file_offset takes lseek's -1.
read_watch(S, i) ==
    IF S.watches[i].fd \in DOMAIN S.fdtab
    THEN read_watch_open(S, i, S.watches[i].fd, S.fdtab[S.watches[i].fd])
    ELSE [S EXCEPT !.watches[i].file_offset = -1]

RECURSIVE SkipSlashes(_)
SkipSlashes(s) == IF s # <<>> /\ Head(s) = "/" THEN SkipSlashes(Tail(s)) ELSE s

\* The test of file_appeared's loop body: strncmp over the directory's
\* length, then strcmp of what follows the slashes with the event's name.
AppearedMatch(dir, file, name) ==
    /\ Len(file) >= Len(dir)
    /\ SubSeq(file, 1, Len(dir)) = dir
    /\ SkipSlashes(SubSeq(file, Len(dir) + 1, Len(file))) = name

RECURSIVE file_appeared_from(_, _, _, _, _)
\* file_appeared's loop from the k-th entry on; the list may grow while the
\* loop runs (reinit_file may append a parent), and the loop visits what
\* was appended.
file_appeared_from(S, i, name, k, ocs) ==
    IF k > Len(S.watches) THEN S
    ELSE file_appeared_from(
            IF AppearedMatch(S.watches[i].name, S.watches[k].name, name)
            THEN reinit_file(S, k, OutcomeFor(ocs, k)) ELSE S,
            i, name, k + 1, ocs)

file_appeared(S, i, name, ocs) == file_appeared_from(S, i, name, 1, ocs)

\* handle_event, lines 292-295.
handle_modify(S, i, mask) ==
    IF "IN_MODIFY" \in mask THEN read_watch(S, i) ELSE S

\* handle_event, lines 296-302.
handle_create(S, i, name, mask, ocs) ==
    IF mask \cap {"IN_CREATE", "IN_MOVED_TO"} # {}
    THEN file_appeared(S, i, name, ocs) ELSE S

\* handle_event, lines 303-306.
handle_delete(S, i, mask) ==
    IF mask \cap {"IN_DELETE_SELF", "IN_MOVE_SELF"} # {}
    THEN file_deleted(S, i) ELSE S

handle_event(S, i, name, mask, ocs) ==
    handle_delete(handle_create(handle_modify(S, i, mask), i, name, mask, ocs),
                  i, mask)

\* The body of read_events' loop, find_watch having returned i.
dispatch_to(S, i, ev, ocs) ==
    IF i # 0 THEN handle_event(S, i, ev.name, ev.mask, ocs) ELSE S

\* The body of read_events' loop for one event of the buffer.
dispatch(S, ev, ocs) == dispatch_to(S, find_watch(S, ev.wd), ev, ocs)

\* init_file, line 248: reinit_file on the entry init_watch appended.
reinit_last(T, oc) == reinit_file(T, Len(T.watches), oc)

init_file(S, name, oc) == reinit_last(init_watch(S, name, TRUE, TRUE), oc)

RECURSIVE init_files(_, _, _)
init_files(S, names, ocs) ==
    IF names = <<>> THEN S
    ELSE init_files(init_file(S, Head(names), OutcomeFor(ocs, Len(S.watches) + 1)),
                    Tail(names), ocs)

----------------------------------------------------------------------------
(* The writer: the other processes that change the files. A file is named   *)
(* by its normalised path p, a sequence of components. The event source is  *)
(* the abstract one of the design: removing a file reports delete-self on   *)
(* its watch at once, then drops the watch (IN_IGNORED).                    *)

Parent(p)   == SubSeq(p, 1, Len(p) - 1)
BaseName(p) == p[Len(p)]

FsCreate(S, p) ==
    Notify([S EXCEPT !.content = Append(@, <<>>),
                     !.links = @ @@ (p :> Len(S.content) + 1)],
           DirObj(Parent(p)), {"IN_CREATE"}, BaseName(p))

FsMkdir(S, d) ==
    Notify([S EXCEPT !.dirs = @ \cup {d}],
           DirObj(Parent(d)), {"IN_CREATE", "IN_ISDIR"}, BaseName(d))

FsAppend(S, p, bytes) ==
    Notify([S EXCEPT !.content[S.links[p]] = @ \o bytes],
           FileObj(S.links[p]), {"IN_MODIFY"}, <<>>)

FsTruncate(S, p, n) ==
    Notify([S EXCEPT !.content[S.links[p]] = SubSeq(@, 1, n)],
           FileObj(S.links[p]), {"IN_MODIFY"}, <<>>)

\* The kernel drops the watches ws of an object that is gone.
DropWatches(T, ws) ==
    IF ws = {} THEN T ELSE inotify_rm_watch(T, CHOOSE wd \in ws : TRUE)

FsDelete(S, p) ==
    DropWatches(Notify([S EXCEPT !.links = [q \in DOMAIN @ \ {p} |-> @[q]]],
                       FileObj(S.links[p]), {"IN_DELETE_SELF"}, <<>>),
                WatchesOn(S, FileObj(S.links[p])))

----------------------------------------------------------------------------
(* The state as a record, and back.                                         *)

State ==
    [watches |-> watches, fdtab |-> fdtab, kwatch |-> kwatch, nextWd |-> nextWd,
     queue |-> queue, handled |-> handled, dirs |-> dirs, links |-> links,
     content |-> content]

Install(S) ==
    /\ watches' = S.watches
    /\ fdtab' = S.fdtab
    /\ kwatch' = S.kwatch
    /\ nextWd' = S.nextWd
    /\ queue' = S.queue
    /\ handled' = S.handled
    /\ dirs' = S.dirs
    /\ links' = S.links
    /\ content' = S.content

\* The file system fs (path -> bytes), its files numbered in the order ps.
BootAs(ds, fs, ps) ==
    [watches |-> <<>>, fdtab |-> <<>>, kwatch |-> <<>>, nextWd |-> 1,
     queue |-> <<>>, handled |-> <<>>, dirs |-> ds,
     links |-> [p \in DOMAIN fs |-> CHOOSE k \in DOMAIN ps : ps[k] = p],
     content |-> [k \in DOMAIN ps |-> fs[ps[k]]]]

\* The state main() starts from, once inotify_init() has succeeded: no
\* entries, no watches, and the files fs holds (path -> bytes) in the
\* directories ds.
Boot(ds, fs) ==
    BootAs(ds, fs, CHOOSE s \in [1..Cardinality(DOMAIN fs) -> DOMAIN fs] :
                      \A a, b \in DOMAIN s : a # b => s[a] # s[b])

NoEvent == Event(0, {}, <<>>)
Step(kind, ev, i) == [kind |-> kind, ev |-> ev, i |-> i]

\* main at the place at, with the arguments argv, inotify_init having
\* returned ifd.
Main(at, argv, ifd, status) ==
    [at |-> at, argv |-> argv, ifd |-> ifd, status |-> status]

\* The variables of State have the values of S.
Install_now(S) ==
    /\ watches = S.watches
    /\ fdtab = S.fdtab
    /\ kwatch = S.kwatch
    /\ nextWd = S.nextWd
    /\ queue = S.queue
    /\ handled = S.handled
    /\ dirs = S.dirs
    /\ links = S.links
    /\ content = S.content

StartedAs(S, argv) ==
    /\ pc = Main("read_events", argv, inotify_fd, 0)
    /\ Install_now(S)
    /\ batch = <<>>
    /\ nops = 0
    /\ last = Step("init", NoEvent, 0)

\* The state after init_files(argv), before the first read_events.
Started(ds, fs, argv, ocs) == StartedAs(init_files(Boot(ds, fs), argv, ocs), argv)

----------------------------------------------------------------------------
(* The tailer's steps.                                                      *)

\* read_events, the read: it blocks while nothing is queued, and returns
\* everything queued (the buffer holds far more events than the model queues).
ReadEvents ==
    /\ pc.at = "read_events"
    /\ batch = <<>>
    /\ queue # <<>>
    /\ batch' = queue
    /\ queue' = <<>>
    /\ last' = Step("read", NoEvent, 0)
    /\ UNCHANGED <<watches, fdtab, kwatch, nextWd, handled, dirs, links, content,
                   script, nops, pc>>

\* read_events, one turn of its loop: the next event of the buffer.
HandleEvent(ocs) ==
    /\ pc.at = "read_events"
    /\ batch # <<>>
    /\ Install(dispatch(State, Head(batch), ocs))
    /\ batch' = Tail(batch)
    /\ last' = Step("event", Head(batch), find_watch(State, Head(batch).wd))
    /\ UNCHANGED <<script, nops, pc>>

----------------------------------------------------------------------------
(* The free writer: any operation on the tracked paths, MaxOps of them.     *)

Root == <<>>

\* The files the tailer was asked to follow, as normalised paths.
Tracked == {Split(watches[k].name) : k \in {j \in 1..Len(watches) : watches[j].is_file}}

\* The bytes the free writer appends: a newline or a letter.
WriterBytes == {LF, 97}

WriterMay == nops < MaxOps /\ Len(queue) < MaxQueue

WriterDid(S, what) ==
    /\ Install(S)
    /\ nops' = nops + 1
    /\ last' = Step(what, NoEvent, 0)
    /\ UNCHANGED <<batch, script, pc>>

WriteCreate ==
    \E p \in Tracked :
        /\ WriterMay
        /\ p \notin DOMAIN links /\ p \notin dirs /\ Parent(p) \in dirs
        /\ WriterDid(FsCreate(State, p), "create")

WriteMkdir ==
    \E p \in Tracked :
        /\ WriterMay
        /\ Parent(p) \notin dirs /\ Parent(Parent(p)) \in dirs
        /\ WriterDid(FsMkdir(State, Parent(p)), "mkdir")

WriteAppend ==
    \E p \in DOMAIN links, b \in WriterBytes :
        /\ WriterMay
        /\ Len(content[links[p]]) < MaxFileLen
        /\ WriterDid(FsAppend(State, p, <<b>>), "append")

WriteTruncate ==
    \E p \in DOMAIN links :
        \E n \in 0..Len(content[links[p]]) - 1 :
            /\ WriterMay
            /\ WriterDid(FsTruncate(State, p, n), "truncate")

WriteDelete ==
    \E p \in DOMAIN links :
        /\ WriterMay
        /\ WriterDid(FsDelete(State, p), "delete")

Writer == WriteCreate \/ WriteMkdir \/ WriteAppend \/ WriteTruncate \/ WriteDelete

----------------------------------------------------------------------------
(* Spec: the tailer started on one of the argument lists below, in a file   *)
(* system where the directory /t and each tracked file may or may not       *)
(* exist, beside the free writer. Every system call succeeds when the file  *)
(* system allows it.                                                        *)

Ptx  == <<"/", "t", "/", "x">>
Pty  == <<"/", "t", "/", "y">>
Ptsy == <<"/", "t", "/", "/", "y">>
Px   == <<"x">>
Prx  == <<"/", "x">>

Configs == {<<Ptx>>, <<Ptx, Ptx>>, <<Ptx, Pty>>, <<Ptx, Ptsy>>, <<Px>>, <<Prx>>}

FilesOf(argv) == {Split(argv[k]) : k \in 1..Len(argv)}

\* What a file holds when the tailer starts, if it holds anything: a line
\* of a letter the writer does not write.
StartBytes == <<98, LF>>

\* The file systems the tailer may start in: /t exists or not, and any of
\* the tracked files whose directory exists, each holding c0.
StartedIn(argv, ocs) ==
    \E ds \in {{Root}, {Root, <<<<"t">>>>}} :
        \E present \in SUBSET {p \in FilesOf(argv) : Parent(p) \in ds} :
            \E c0 \in {<<>>, StartBytes} :
                Started(ds, [p \in present |-> c0], argv, ocs)

Init ==
    /\ \E argv \in Configs : StartedIn(argv, <<>>)
    /\ script = <<>>

Next ==
    \/ Writer
    \/ ReadEvents
    \/ HandleEvent(<<>>)

Spec == Init /\ [][Next]_vars

----------------------------------------------------------------------------
(* SpecLines: one line buffer, fed a byte sequence in chunks of any size.   *)
(* The tailer watches /t/x from its first byte; the writer has appended     *)
(* input; each step is one turn of read_watch's loop, read() returning any  *)
(* number of the bytes that are there, up to the count asked for.           *)

\* One turn of read_watch's loop on entry i, read() returning n bytes.
read_chunk_done(S, i, fd, n, r) ==
    [S EXCEPT !.fdtab[fd].pos = @ + n,
              !.watches[i].line_buffer_data = r.data,
              !.handled = @ \o [k \in 1..Len(r.lines) |->
                                  [w |-> i, line |-> r.lines[k]]]]

read_chunk_at(S, i, fd, f, n) ==
    read_chunk_done(S, i, fd, n,
        ReadChunk(S.watches[i].line_buffer_data,
                  SubSeq(S.content[f.obj.ino], f.pos + 1, f.pos + n)))

read_chunk(S, i, n) ==
    read_chunk_at(S, i, S.watches[i].fd, S.fdtab[S.watches[i].fd], n)

\* The bytes a read on entry i's descriptor can return now.
Readable(i) ==
    LET f == fdtab[watches[i].fd]
    IN  IF Len(content[f.obj.ino]) - f.pos < ReadCount(watches[i].line_buffer_data)
        THEN Len(content[f.obj.ino]) - f.pos
        ELSE ReadCount(watches[i].line_buffer_data)

ReadSome ==
    \E n \in 1..Readable(1) :
        /\ Install(read_chunk(State, 1, n))
        /\ last' = Step("chunk", NoEvent, 1)
        /\ UNCHANGED <<batch, script, nops, pc>>

\* The bytes of SpecLines' inputs: NUL, newline and a letter.
LineBytes == {NUL, LF, 97}

Inputs == UNION {[1..n -> LineBytes] : n \in 0..MaxInput}

InitLines ==
    /\ \E input \in Inputs :
          StartedAs(FsAppend(init_files(Boot({Root, <<<<"t">>>>},
                                             (<<<<"t">>, <<"x">>>> :> <<>>)),
                                        <<Ptx>>, <<>>),
                             <<<<"t">>, <<"x">>>>, input), <<Ptx>>)
    /\ script = <<>>

NextLines == ReadSome

SpecLines == InitLines /\ [][NextLines]_vars

----------------------------------------------------------------------------
(* A scripted writer: it performs the operations of script, in order. A     *)
(* write of several bytes may reach the file in several write() calls.      *)

Op(op, p, bytes, n) == [op |-> op, p |-> p, bytes |-> bytes, n |-> n]

ScriptDid(S, what) ==
    /\ Install(S)
    /\ last' = Step(what, NoEvent, 0)
    /\ UNCHANGED <<batch, nops, pc>>

ScriptCreate ==
    /\ script # <<>> /\ Head(script).op = "create"
    /\ ScriptDid(FsCreate(State, Head(script).p), "create")
    /\ script' = Tail(script)

ScriptTruncate ==
    /\ script # <<>> /\ Head(script).op = "truncate"
    /\ ScriptDid(FsTruncate(State, Head(script).p, Head(script).n), "truncate")
    /\ script' = Tail(script)

ScriptWrite ==
    /\ script # <<>> /\ Head(script).op = "write"
    /\ \E k \in 1..Len(Head(script).bytes) :
          /\ ScriptDid(FsAppend(State, Head(script).p,
                                SubSeq(Head(script).bytes, 1, k)), "append")
          /\ script' = IF k = Len(Head(script).bytes) THEN Tail(script)
                       ELSE <<[Head(script) EXCEPT
                                 !.bytes = SubSeq(@, k + 1, Len(@))]>> \o Tail(script)

\* The writer has finished and the tailer has handled every event.
Settled == script = <<>> /\ queue = <<>> /\ batch = <<>>

----------------------------------------------------------------------------
(* SpecHello: notify-tail /tmp/log.txt, /tmp existing and log.txt not; the  *)
(* writer creates the file, then writes "hello\n" to it.                    *)

Plog == <<"/", "t", "m", "p", "/", "l", "o", "g", ".", "t", "x", "t">>

Hello == <<104, 101, 108, 108, 111>>

InitHello ==
    /\ Started({Root, <<<<"t", "m", "p">>>>}, <<>>, <<Plog>>, <<>>)
    /\ script = <<Op("create", Split(Plog), <<>>, 0),
                  Op("write", Split(Plog), Append(Hello, LF), 0)>>

NextHello ==
    \/ ScriptCreate
    \/ ScriptWrite
    \/ ReadEvents
    \/ HandleEvent(<<>>)

SpecHello == InitHello /\ [][NextHello]_vars

----------------------------------------------------------------------------
(* SpecTrunc: the tailer watches /t/x, a file of 20 bytes, at offset 20;    *)
(* the writer truncates the file to 5 bytes, then appends "x\n". The five   *)
(* bytes that remain are any bytes of LineBytes.                            *)

XLine == <<120>>

TruncStart(rem) ==
    init_files(Boot({Root, <<<<"t">>>>},
                    (Split(Ptx) :> rem \o [k \in 1..15 |-> 97])),
               <<Ptx>>, <<>>)

InitTrunc ==
    /\ \E rem \in [1..5 -> LineBytes] : StartedAs(TruncStart(rem), <<Ptx>>)
    /\ script = <<Op("truncate", Split(Ptx), <<>>, 5),
                  Op("write", Split(Ptx), Append(XLine, LF), 0)>>

NextTrunc ==
    \/ ScriptTruncate
    \/ ScriptWrite
    \/ ReadEvents
    \/ HandleEvent(<<>>)

SpecTrunc == InitTrunc /\ [][NextTrunc]_vars

----------------------------------------------------------------------------
(* SpecFail: as Spec, but a system call may fail though the file system     *)
(* would allow it: open (EMFILE, EACCES) and inotify_add_watch (ENOSPC,     *)
(* ENOMEM, or the file was unlinked since open), once per reinit_file.      *)

Outcomes ==
    {AllOk, [AllOk EXCEPT !.open = FALSE], [AllOk EXCEPT !.add = FALSE],
     [AllOk EXCEPT !.addDir = FALSE]}

FailConfigs == {<<Ptx>>, <<Ptx, Pty>>}

\* At startup: one outcome for each entry init_files makes.
StartChoices == [1..3 -> Outcomes]

\* In one turn of read_events' loop: one outcome, for every entry the turn
\* reinitialises.
OutcomeChoices == {[k \in 1..3 |-> oc] : oc \in Outcomes}

InitFail ==
    /\ \E argv \in FailConfigs : \E ocs \in StartChoices : StartedIn(argv, ocs)
    /\ script = <<>>

NextFail ==
    \/ Writer
    \/ ReadEvents
    \/ \E ocs \in OutcomeChoices : HandleEvent(ocs)

SpecFail == InitFail /\ [][NextFail]_vars

----------------------------------------------------------------------------
(* SpecMatch: as Spec, for argument lists in which one path begins with the *)
(* characters of another path's directory: /t/x beside /tx.                 *)

Prtx == <<"/", "t", "x">>

MatchConfigs == {<<Ptx, Prtx>>, <<Prtx, Ptx>>, <<Ptx, Pty>>}

InitMatch ==
    /\ \E argv \in MatchConfigs : StartedIn(argv, <<>>)
    /\ script = <<>>

SpecMatch == InitMatch /\ [][Next]_vars

----------------------------------------------------------------------------
(* SpecNested: as Spec, for files in nested directories: /t/x beside        *)
(* /t/d/y, so that the watched directory /t/d is a child of the watched     *)
(* directory /t.                                                            *)

Ptdy == <<"/", "t", "/", "d", "/", "y">>

NestedConfigs == {<<Ptx, Ptdy>>, <<Ptdy, Ptx>>}

InitNested ==
    /\ \E argv \in NestedConfigs : StartedIn(argv, <<>>)
    /\ script = <<>>

SpecNested == InitNested /\ [][Next]_vars

----------------------------------------------------------------------------
(* SpecDispatch: as Spec, with a writer that may also append to a file and  *)
(* remove it (unlink it, or rename it away) in one go, reported to the      *)
(* file's watch as one event that carries modify and delete-self, or modify *)
(* and move-self.                                                           *)

\* The file at p gets bytes and leaves its path; gone is the kind reported
\* with the modify. After delete-self the kernel drops the watch.
FsAppendGone(S, p, bytes, gone) ==
    DropWatches(Notify([S EXCEPT !.content[S.links[p]] = @ \o bytes,
                                 !.links = [q \in DOMAIN @ \ {p} |-> @[q]]],
                       FileObj(S.links[p]), {"IN_MODIFY", gone}, <<>>),
                IF gone = "IN_DELETE_SELF"
                THEN WatchesOn(S, FileObj(S.links[p])) ELSE {})

WriteAppendGone ==
    \E p \in DOMAIN links, b \in WriterBytes :
        \E gone \in {"IN_DELETE_SELF", "IN_MOVE_SELF"} :
            /\ WriterMay
            /\ Len(content[links[p]]) < MaxFileLen
            /\ WriterDid(FsAppendGone(State, p, <<b>>, gone), "append-gone")

DispatchConfigs == {<<Ptx>>, <<Ptx, Pty>>, <<Ptx, Ptx>>}

InitDispatch ==
    /\ \E argv \in DispatchConfigs : StartedIn(argv, <<>>)
    /\ script = <<>>

NextDispatch ==
    \/ Writer
    \/ WriteAppendGone
    \/ ReadEvents
    \/ HandleEvent(<<>>)

SpecDispatch == InitDispatch /\ [][NextDispatch]_vars

----------------------------------------------------------------------------
(* SpecBulk: the tailer watches /t/x, empty at startup; the writer appends  *)
(* a text of up to MaxInput bytes (letters and newlines), in any number of  *)
(* write() calls, while the tailer handles the modify events: a read_watch  *)
(* may find more unread bytes than the line buffer takes at once.           *)

BulkInputs == UNION {[1..n -> WriterBytes] : n \in 1..MaxInput}

InitBulk ==
    /\ Started({Root, <<<<"t">>>>}, (Split(Ptx) :> <<>>), <<Ptx>>, <<>>)
    /\ \E input \in BulkInputs : script = <<Op("write", Split(Ptx), input, 0)>>

NextBulk ==
    \/ ScriptWrite
    \/ ReadEvents
    \/ HandleEvent(<<>>)

SpecBulk == InitBulk /\ [][NextBulk]_vars

----------------------------------------------------------------------------
(* SpecBuffer: one line buffer under any sequence of read sizes,            *)
(* file_deleted and reinit_file calls. The tailer watches /t/x, empty at    *)
(* startup; the writer appends a text in one or two writes; each step is a  *)
(* write, one turn of read_watch's loop, a file_deleted or a reinit_file on *)
(* the entry.                                                               *)

\* The texts written: letters and at most two newlines, possibly after a
\* NUL.
BufferInputs ==
    LET few == {s \in BulkInputs : Len(SelectSeq(s, LAMBDA b : b = LF)) <= 2}
    IN  few \cup {<<NUL>> \o s : s \in {b \in few : Len(b) < MaxInput}}

ScriptWriteAll ==
    /\ script # <<>> /\ Head(script).op = "write"
    /\ ScriptDid(FsAppend(State, Head(script).p, Head(script).bytes), "append")
    /\ script' = Tail(script)

CallDid(S, what) ==
    /\ Install(S)
    /\ nops' = nops + 1
    /\ last' = Step(what, NoEvent, 1)
    /\ UNCHANGED <<batch, script, pc>>

ReadTurnNow ==
    /\ watches[1].fd \in DOMAIN fdtab
    /\ ReadSome

FileDeletedNow ==
    /\ nops < MaxOps
    /\ watches[1].watch_desc >= 0
    /\ CallDid(file_deleted(State, 1), "file_deleted")

ReinitNow ==
    /\ nops < MaxOps
    /\ CallDid(reinit_file(State, 1, AllOk), "reinit_file")

InitBuffer ==
    /\ Started({Root, <<<<"t">>>>}, (Split(Ptx) :> <<>>), <<Ptx>>, <<>>)
    /\ \E input \in BufferInputs :
          \E k \in 1..Len(input) :
              script = IF k = Len(input)
                       THEN <<Op("write", Split(Ptx), input, 0)>>
                       ELSE <<Op("write", Split(Ptx), SubSeq(input, 1, k), 0),
                              Op("write", Split(Ptx),
                                 SubSeq(input, k + 1, Len(input)), 0)>>

NextBuffer ==
    \/ ScriptWriteAll
    \/ ReadTurnNow
    \/ FileDeletedNow
    \/ ReinitNow

SpecBuffer == InitBuffer /\ [][NextBuffer]_vars

----------------------------------------------------------------------------
(* SpecMoved: as SpecNested, /t/d existing at startup or not, with a writer *)
(* that may also move a watched directory away and back under its name      *)
(* (mv /t/d /t/e; mv /t/e /t/d): the directory's own watch sees             *)
(* IN_MOVE_SELF each time, the watch on its parent IN_MOVED_TO with the     *)
(* directory's name, both only if they asked for it; the files inside and   *)
(* the watches on them are untouched.                                       *)

WriteMoveBack ==
    \E p \in Tracked :
        /\ WriterMay
        /\ Parent(p) # Root /\ Parent(p) \in dirs
        /\ WriterDid(
              Notify(Notify(Notify(State, DirObj(Parent(p)), {"IN_MOVE_SELF"}, <<>>),
                            DirObj(Parent(Parent(p))),
                            {"IN_MOVED_TO", "IN_ISDIR"}, BaseName(Parent(p))),
                     DirObj(Parent(p)), {"IN_MOVE_SELF"}, <<>>),
              "move")

InitMoved ==
    /\ \E ds \in {{Root, <<<<"t">>>>}, {Root, <<<<"t">>>>, <<<<"t">>, <<"d">>>>}} :
          \E present \in SUBSET {p \in FilesOf(<<Ptx, Ptdy>>) : Parent(p) \in ds} :
              Started(ds, [p \in present |-> <<>>], <<Ptx, Ptdy>>, <<>>)
    /\ script = <<>>

NextMoved ==
    \/ Writer
    \/ WriteMoveBack
    \/ ReadEvents
    \/ HandleEvent(<<>>)

SpecMoved == InitMoved /\ [][NextMoved]_vars

----------------------------------------------------------------------------
(* SpecMain: main from its first statement, with any of the argument lists  *)
(* of MainArgs (none, one path, two paths); inotify_init may fail.          *)

MainArgs == {<<>>, <<Ptx>>, <<Ptx, Pty>>}

\* init_file's return value (line 249).
init_file_returns(name) == TRUE

\* init_files' return value: false at the first init_file that fails.
init_files_returns(names) == \A k \in 1..Len(names) : init_file_returns(names[k])

\* main, lines 352-356: inotify_init returns a descriptor or -1.
MainInotifyInit ==
    /\ pc.at = "main"
    /\ \E ifd \in {-1, inotify_fd} :
          pc' = IF ifd < 0 THEN Main("exit", pc.argv, ifd, -1)
                ELSE Main("init_files", pc.argv, ifd, 0)
    /\ last' = Step("inotify_init", NoEvent, 0)
    /\ UNCHANGED <<watches, fdtab, kwatch, nextWd, queue, batch, handled,
                   dirs, links, content, script, nops>>

\* main, lines 358-365: init_files, then the loop or the exit.
MainInitFiles ==
    /\ pc.at = "init_files"
    /\ Install(init_files(State, pc.argv, <<>>))
    /\ pc' = IF init_files_returns(pc.argv)
             THEN Main("read_events", pc.argv, pc.ifd, 0)
             ELSE Main("exit", pc.argv, pc.ifd, -1)
    /\ last' = Step("init", NoEvent, 0)
    /\ UNCHANGED <<batch, script, nops>>

InitMain ==
    /\ \E argv \in MainArgs :
          \E ds \in {{Root}, {Root, <<<<"t">>>>}} :
             \E present \in SUBSET {p \in FilesOf(argv) : Parent(p) \in ds} :
                /\ Install_now(Boot(ds, [p \in present |-> StartBytes]))
                /\ pc = Main("main", argv, 0, 0)
    /\ batch = <<>>
    /\ nops = 0
    /\ script = <<>>
    /\ last = Step("start", NoEvent, 0)

NextMain ==
    \/ MainInotifyInit
    \/ MainInitFiles
    \/ Writer
    \/ ReadEvents
    \/ HandleEvent(<<>>)

SpecMain == InitMain /\ [][NextMain]_vars

----------------------------------------------------------------------------
(* What the claims about the line buffer speak of.                          *)

\* The bytes entry i's descriptor has delivered (SpecLines reads from 0).
Fed(i) == SubSeq(content[fdtab[watches[i].fd].obj.ino], 1, fdtab[watches[i].fd].pos)

\* The lines passed to handle_line for entry i, in order.
Passed(i) ==
    LET mine == SelectSeq(handled, LAMBDA h : h.w = i)
    IN  [k \in 1..Len(mine) |-> mine[k].line]

\* The lines shown by the sink: handle_line shows nothing for an empty line.
Shown == LET lines == SelectSeq(handled, LAMBDA h : h.line # <<>>)
         IN  [k \in 1..Len(lines) |-> lines[k].line]

RECURSIVE SplitLF(_)
\* s split on '\n': the segments that a '\n' ends, in order.
SplitLF(s) ==
    IF \A k \in 1..Len(s) : s[k] # LF THEN <<>>
    ELSE LET n == Min({k \in 1..Len(s) : s[k] = LF})
         IN  <<SubSeq(s, 1, n - 1)>> \o SplitLF(SubSeq(s, n + 1, Len(s)))

\* The bytes of s after its last '\n': the line still being assembled.
TailLF(s) == SubSeq(s, Strrchr(s, LF) + 1, Len(s))

RECURSIVE Concat(_)
Concat(ss) == IF ss = <<>> THEN <<>> ELSE Head(ss) \o Concat(Tail(ss))

\* No line of s, finished or not, has reached LINE_BUFFER_SIZE - 1 bytes.
AllShort(s) ==
    /\ \A k \in 1..Len(SplitLF(s)) : Len(SplitLF(s)[k]) < LINE_BUFFER_SIZE - 1
    /\ Len(TailLF(s)) < LINE_BUFFER_SIZE - 1

\* C1 (as claimed): whatever bytes were delivered to a line buffer, in
\* whatever chunks, the lines passed to handle_line are the delivered bytes
\* split on '\n' (the unfinished last segment left out), as long as no line
\* reaches LINE_BUFFER_SIZE - 1 bytes.
C1_LineSplit_Claim ==
    AllShort(Fed(1)) => Passed(1) = SplitLF(Fed(1))

\* C2 (as claimed): once a line of LINE_BUFFER_SIZE bytes or more, with no
\* '\n' in it, has been delivered, there has been exactly one forced split,
\* of LINE_BUFFER_SIZE - 1 bytes, and what was passed to handle_line
\* followed by what the buffer holds is the input: no byte is lost.
C2_Overflow_Claim ==
    (Len(Fed(1)) >= LINE_BUFFER_SIZE /\ SplitLF(Fed(1)) = <<>>)
        => /\ Len(Passed(1)) = 1
           /\ Len(Passed(1)[1]) = LINE_BUFFER_SIZE - 1
           /\ Concat(Passed(1)) \o watches[1].line_buffer_data = Fed(1)

----------------------------------------------------------------------------
(* What the claims about the registry speak of.                             *)

FileEntries == {k \in 1..Len(watches) : watches[k].is_file}

\* The normalised path of entry i.
PathOf(i) == Split(watches[i].name)

\* The directory entries whose name is a path of the directory d.
DirEntriesFor(d) ==
    {k \in 1..Len(watches) : ~watches[k].is_file /\ Split(watches[k].name) = d}

\* The directory entries named as strrchr cuts entry i's name.
DirEntriesNamedFor(ws, i) ==
    {k \in 1..Len(ws) : /\ ~ws[k].is_file
                        /\ ws[k].name = SubSeq(ws[i].name, 1,
                                               Strrchr(ws[i].name, "/") - 1)}

\* The step is one turn of read_events' loop, on an event of a kind in mask.
Handling(mask) ==
    /\ batch # <<>>
    /\ last'.kind = "event" /\ last'.ev = Head(batch)
    /\ Head(batch).mask \cap mask # {}

\* The step handles the create event, from the directory of entry i, that
\* names entry i's file; the entry was Watching and is Unwatched since its
\* file was deleted, and the new file is there, as created (empty).
RotationCompletes(i) ==
    /\ Handling({"IN_CREATE"})
    /\ Head(batch).wd \in DOMAIN kwatch
    /\ kwatch[Head(batch).wd].obj = DirObj(Parent(PathOf(i)))
    /\ Head(batch).name = BaseName(PathOf(i))
    /\ Len(watches[i].hist) >= 2
    /\ SubSeq(watches[i].hist, Len(watches[i].hist) - 1, Len(watches[i].hist))
          = <<"W", "U">>
    /\ PathOf(i) \in DOMAIN links
    /\ content[links[PathOf(i)]] = <<>>

\* C3: rotation recovery. When the create event of the parent directory is
\* handled for an entry that went Watching -> Unwatched (its file deleted,
\* delete-self handled) and whose file has been created anew, the entry
\* becomes Watching again with offset 0, no entry is added to the registry,
\* and the one directory entry for its parent is the entry it had, its
\* kernel watch still live.
C3_Rotation ==
    [][\A i \in FileEntries :
         RotationCompletes(i) =>
            /\ Len(watches') = Len(watches)
            /\ watches'[i].hist = Append(watches[i].hist, "W")
            /\ Watching(watches'[i])
            /\ watches'[i].file_offset = 0
            /\ watches'[i].parent = watches[i].parent
            /\ DirEntriesNamedFor(watches', i) = {watches[i].parent}
            /\ watches'[watches[i].parent].watch_desc = Head(batch).wd
            /\ Head(batch).wd \in DOMAIN kwatch']_vars

\* C3's case: a create event has just been handled and an entry has gone
\* Unwatched -> Watching -> Unwatched -> Watching, ending at offset 0.
C3_Rotation_Witness ==
    /\ last.kind = "event" /\ "IN_CREATE" \in last.ev.mask
    /\ \E i \in FileEntries :
          /\ watches[i].hist = <<"U", "W", "U", "W">>
          /\ watches[i].file_offset = 0
          /\ Cardinality(DirEntriesFor(Parent(PathOf(i)))) = 1

\* C4 (as claimed): once the writer has created /tmp/log.txt and written
\* "hello\n" to it and the tailer has handled every event, the sink was
\* given exactly the line "hello" and the entry is Watching at offset 6.
C4_Hello_Claim ==
    Settled => /\ Passed(1) = <<Hello>>
               /\ Watching(watches[1])
               /\ watches[1].file_offset = 6

\* The step handles a modify event for entry i, which is Watching at an
\* offset beyond the size of its file.
TruncationSeen(i) ==
    /\ Handling({"IN_MODIFY"})
    /\ last'.i = i
    /\ Watching(watches[i])
    /\ watches[i].fd \in DOMAIN fdtab
    /\ ObjSize(State, fdtab[watches[i].fd].obj) < watches[i].file_offset

\* C5: truncation reset. When a modify event is handled for a Watching entry
\* whose file is shorter than the entry's offset, the read starts at file
\* position 0 (and goes to the end of the file), and the entry keeps its
\* descriptor and its watch handle: nothing is closed, opened, added or
\* removed.
C5_TruncationReset ==
    [][\A i \in 1..Len(watches) :
         TruncationSeen(i) =>
            /\ watches'[i].read_from = 0
            /\ watches'[i].file_offset
                  = ObjSize(State, fdtab[watches[i].fd].obj)
            /\ watches'[i].fd = watches[i].fd
            /\ watches'[i].watch_desc = watches[i].watch_desc
            /\ watches'[i].hist = watches[i].hist
            /\ kwatch' = kwatch
            /\ DOMAIN fdtab' = DOMAIN fdtab
            /\ fdtab'[watches[i].fd].obj = fdtab[watches[i].fd].obj]_vars

\* C5's case: a modify event has just been handled for an entry that found
\* its file truncated, and read it from position 0.
C5_TruncationReset_Witness ==
    /\ last.kind = "event" /\ "IN_MODIFY" \in last.ev.mask
    /\ last.i \in 1..Len(watches)
    /\ watches[last.i].truncated
    /\ watches[last.i].read_from = 0
    /\ watches[last.i].file_offset > 0
    /\ Watching(watches[last.i])

\* The entry of SpecTrunc holds the descriptor and the watch handle it had
\* at startup, both live and on the file.
SameHandle ==
    /\ watches[1].fd = TruncStart(<<LF, LF, LF, LF, LF>>).watches[1].fd
    /\ watches[1].watch_desc
          = TruncStart(<<LF, LF, LF, LF, LF>>).watches[1].watch_desc
    /\ watches[1].hist = <<"U", "W">>
    /\ watches[1].watch_desc \in DOMAIN kwatch
    /\ watches[1].fd \in DOMAIN fdtab
    /\ kwatch[watches[1].watch_desc].obj = fdtab[watches[1].fd].obj

C7_FdIffWd_Claim ==
    \A i \in FileEntries : (watches[i].fd >= 0) <=> (watches[i].watch_desc >= 0)

\* C8 (as claimed): no two entries of the registry hold the same live
\* kernel watch handle.
C8_NoSharedHandle_Claim ==
    \A i, j \in 1..Len(watches) :
        (i # j /\ watches[i].watch_desc \in DOMAIN kwatch)
            => watches[i].watch_desc # watches[j].watch_desc

\* C9 (as claimed): for the directory of every tracked file the registry
\* holds exactly one directory entry.
C9_OneParentEntry_Claim ==
    \A i \in FileEntries : Cardinality(DirEntriesFor(Parent(PathOf(i)))) = 1

\* C10 (as claimed), on finite runs: an entry whose file was absent when the
\* entry was made and that has never been Watching is not left so once its
\* file exists and every event has been delivered and handled.
C10_Activation_Claim ==
    \A i \in FileEntries :
        ~ /\ watches[i].hist = <<"U">>
          /\ PathOf(i) \in DOMAIN links
          /\ queue = <<>> /\ batch = <<>>

\* The lines passed to handle_line that hold a byte the files held at
\* startup (the letter of StartBytes; the writer writes other letters).
OldLines == {k \in 1..Len(handled) : \E j \in 1..Len(handled[k].line) :
                                        handled[k].line[j] = StartBytes[1]}

\* C11 (as claimed): no byte a file held at startup is passed to handle_line,
\* whatever appends, truncations and modify events follow.
C11_TailOnly_Claim == OldLines = {}

\* C11 (amended): a byte a file held at startup is passed to handle_line
\* only by an entry that has found its file truncated (size below its
\* offset at a modify event) and has read it again from position 0; as long
\* as no truncation is detected no such byte is passed.
C11_TailOnly_Amended ==
    \A k \in OldLines : watches[handled[k].w].warned

\* C11's case: a file that held StartBytes at startup and still does was
\* appended to, and the entry, never having seen a truncation, passed the
\* appended line and nothing else.
C11_TailOnly_Witness ==
    \E i \in FileEntries :
        /\ watches[i].hist = <<"U", "W">>
        /\ ~watches[i].warned
        /\ PathOf(i) \in DOMAIN links
        /\ content[links[PathOf(i)]] = StartBytes \o <<97, LF>>
        /\ handled = <<[w |-> i, line |-> <<97>>]>>

\* C12 (as claimed): when inotify_init has failed, or no path was given,
\* main does not go on to the event loop: once past init_files it has
\* exited with a non-zero status (and read_events is never called).
C12_StartupFatal_Claim ==
    (pc.at \notin {"main", "init_files"} /\ (pc.ifd < 0 \/ pc.argv = <<>>))
        => (pc.at = "exit" /\ pc.status # 0)

\* The step handles a create or moved-to event, from the directory of entry
\* i, that names entry i's file.
AppearsFor(i) ==
    /\ Handling({"IN_CREATE", "IN_MOVED_TO"})
    /\ Head(batch).wd \in DOMAIN kwatch
    /\ kwatch[Head(batch).wd].obj = DirObj(Parent(PathOf(i)))
    /\ Head(batch).name = BaseName(PathOf(i))

\* Entry i is Watching, and what it watches is the file now at its path: its
\* watch is live and on that file.
WatchingItsFile(i) ==
    /\ Watching(watches[i])
    /\ PathOf(i) \in DOMAIN links
    /\ watches[i].watch_desc \in DOMAIN kwatch
    /\ kwatch[watches[i].watch_desc].obj = FileObj(links[PathOf(i)])

\* C13 (as claimed): a create or moved-to event naming the file of an entry
\* that is Watching leaves the entry's watch handle, descriptor, offset and
\* line buffer as they were.
C13_OnlyUnwatched_Claim ==
    [][\A i \in FileEntries :
         (AppearsFor(i) /\ WatchingItsFile(i)) =>
            /\ watches'[i].watch_desc = watches[i].watch_desc
            /\ watches'[i].fd = watches[i].fd
            /\ watches'[i].file_offset = watches[i].file_offset
            /\ watches'[i].line_buffer_data = watches[i].line_buffer_data]_vars

\* C14 (as claimed): when a create or moved-to event of a directory entry D
\* naming N is handled, an entry whose path is not D's path followed by the
\* component N is not reinitialised: it is left as it was.
C14_PathMatch_Claim ==
    [][\A i \in FileEntries :
         ( /\ Handling({"IN_CREATE", "IN_MOVED_TO"})
           /\ last'.i \in 1..Len(watches)
           /\ PathOf(i) # Append(PathOf(last'.i), Head(batch).name) )
         => watches'[i] = watches[i]]_vars

\* C15 (as claimed): a directory entry never holds a file descriptor, and
\* its kernel watch, when it has one, asks for the directory's events
\* (create, moved-to), never for modify, move-self or delete-self.
C15_DirNeverReinit_Claim ==
    \A k \in 1..Len(watches) :
        ~watches[k].is_file =>
            /\ watches[k].fd < 0
            /\ watches[k].watch_desc \in DOMAIN kwatch
                  => kwatch[watches[k].watch_desc].mask = DirMask

\* The step is a turn of read_events' loop in which reinit_file, called for
\* entry i by file_appeared, opened the file and added the watch: the
\* entry's history has grown and ends Watching.
ReinitSucceeds(i) ==
    /\ Handling({"IN_CREATE", "IN_MOVED_TO"})
    /\ watches'[i].hist # watches[i].hist
    /\ Watching(watches'[i])

\* C16 (as claimed): when reinit_file has opened the file and added the
\* watch, the entry is Watching, its offset is the size of the file, and its
\* line buffer is empty, whatever the entry was and held before.
C16_ReinitFresh_Claim ==
    [][\A i \in FileEntries :
         ReinitSucceeds(i) =>
            /\ watches'[i].fd \in DOMAIN fdtab'
            /\ watches'[i].file_offset
                  = Len(content'[fdtab'[watches'[i].fd].obj.ino])
            /\ watches'[i].line_buffer_data = <<>>]_vars

\* The step handles, for entry i, an event that carries modify and
\* delete-self or move-self; the entry is Watching and its file has not
\* shrunk below its offset.
ModifyAndGone(i) ==
    /\ Handling({"IN_DELETE_SELF", "IN_MOVE_SELF"})
    /\ "IN_MODIFY" \in Head(batch).mask
    /\ last'.i = i
    /\ Watching(watches[i])
    /\ watches[i].fd \in DOMAIN fdtab
    /\ ObjSize(State, fdtab[watches[i].fd].obj) >= watches[i].file_offset

\* The bytes of entry i's file from the entry's offset on.
Unread(i) ==
    SubSeq(content[fdtab[watches[i].fd].obj.ino], watches[i].file_offset + 1,
           Len(content[fdtab[watches[i].fd].obj.ino]))

\* C17 (as claimed): dispatch order. An event that carries modify and delete-self (or
\* move-self) is handled as modify first, delete-self after: the file is
\* read to its end and the lines completed by that are passed on (the lines
\* of the buffer followed by the unread bytes), and then the entry is
\* Unwatched, its descriptor closed and its watch removed; no entry holds
\* the removed handle any more, so a later event for it finds no entry. A
\* turn of the loop whose event finds no entry changes nothing.
C17_DispatchOrder_Claim ==
    [][/\ \A i \in 1..Len(watches) :
            ModifyAndGone(i) =>
               /\ handled' = handled \o
                     [k \in 1..Len(SplitLF(watches[i].line_buffer_data \o Unread(i)))
                        |-> [w |-> i,
                             line |-> SplitLF(watches[i].line_buffer_data
                                              \o Unread(i))[k]]]
               /\ watches'[i].read_from = watches[i].file_offset
               /\ ~Watching(watches'[i])
               /\ watches'[i].fd = -1 /\ watches'[i].watch_desc = -1
               /\ watches'[i].file_offset = 0
               /\ watches'[i].line_buffer_data = <<>>
               /\ watches[i].fd \notin DOMAIN fdtab'
               /\ Head(batch).wd \notin DOMAIN kwatch'
               /\ \A k \in 1..Len(watches') :
                     watches'[k].watch_desc # Head(batch).wd
       /\ (batch # <<>> /\ last'.kind = "event" /\ last'.i = 0)
             => UNCHANGED <<watches, fdtab, kwatch, nextWd, queue, handled>>]_vars

\* s without its newlines.
NoLF(s) == SelectSeq(s, LAMBDA b : b # LF)

\* The lines the step has added to those passed to handle_line.
NewLines == [k \in 1..(Len(handled') - Len(handled)) |-> handled'[Len(handled) + k].line]

\* The step handles a modify event for entry i, which is Watching a file
\* that is not shorter than the entry's offset.
ModifySeen(i) ==
    /\ Handling({"IN_MODIFY"})
    /\ Head(batch).mask = {"IN_MODIFY"}
    /\ last'.i = i
    /\ Watching(watches[i])
    /\ watches[i].fd \in DOMAIN fdtab
    /\ ObjSize(State, fdtab[watches[i].fd].obj) >= watches[i].file_offset

\* C18: read to exhaustion. A Watching entry's descriptor stands at the
\* entry's offset; when a modify event is handled for it and the file is not
\* shorter than the offset, the read starts there, the bytes from there to
\* the file's end are fed to the line buffer once each and in order,
\* however many reads that takes (what was buffered and what was unread is,
\* newlines apart, what was passed on followed by what is buffered now; for
\* lines shorter than the buffer the lines passed on are the lines the
\* bytes complete), and the offset and the descriptor end at the file's
\* end: the next modify event starts where this one ended.
C18_ReadAll ==
    [][\A i \in 1..Len(watches) :
         /\ (Watching(watches[i]) /\ watches[i].fd \in DOMAIN fdtab)
               => fdtab[watches[i].fd].pos = watches[i].file_offset
         /\ ModifySeen(i) =>
               /\ watches'[i].read_from = watches[i].file_offset
               /\ Concat(NewLines) \o watches'[i].line_buffer_data
                     = NoLF(watches[i].line_buffer_data \o Unread(i))
               /\ AllShort(watches[i].line_buffer_data \o Unread(i))
                     => NewLines = SplitLF(watches[i].line_buffer_data \o Unread(i))
               /\ \A k \in 1..Len(NewLines) : handled'[Len(handled) + k].w = i
               /\ watches'[i].file_offset
                     = ObjSize(State, fdtab[watches[i].fd].obj)
               /\ fdtab'[watches[i].fd].pos = watches'[i].file_offset
               /\ content' = content]_vars

\* C18's case: a modify event has just been handled for a Watching entry
\* that found more unread bytes than one read takes, and read them all.
C18_ReadAll_Witness ==
    /\ last.kind = "event" /\ last.ev.mask = {"IN_MODIFY"}
    /\ last.i \in FileEntries
    /\ Watching(watches[last.i])
    /\ ~watches[last.i].truncated
    /\ watches[last.i].read_from >= 0
    /\ watches[last.i].file_offset - watches[last.i].read_from >= LINE_BUFFER_SIZE
    /\ watches[last.i].file_offset = Len(content[links[PathOf(last.i)]])

\* C19 (line-buffer bounds): in every state, for every entry, the line
\* buffer holds fewer than LINE_BUFFER_SIZE - 1 bytes (handle_lines has run
\* after every read), so the next do_read asks for at least one byte, and
\* the bytes held, the bytes asked for and the terminating NUL fit in the
\* LINE_BUFFER_SIZE bytes of the buffer; whatever the sizes of the reads
\* and the file_deleted and reinit_file calls before.
C19_BufferBounds ==
    \A i \in 1..Len(watches) :
        /\ Len(watches[i].line_buffer_data) >= 0
        /\ Len(watches[i].line_buffer_data) < LINE_BUFFER_SIZE - 1
        /\ ReadCount(watches[i].line_buffer_data) >= 1
        /\ Len(watches[i].line_buffer_data)
              + ReadCount(watches[i].line_buffer_data) + 1 <= LINE_BUFFER_SIZE

\* C19's case: after a file_deleted or reinit_file call, a read has filled
\* the buffer to LINE_BUFFER_SIZE - 1 bytes without a newline, and
\* handle_lines has passed them on and emptied the buffer.
C19_BufferBounds_Witness ==
    /\ last.kind = "chunk"
    /\ nops > 0
    /\ handled # <<>>
    /\ Len(handled[Len(handled)].line) = LINE_BUFFER_SIZE - 1
    /\ watches[1].line_buffer_data = <<>>

\* The entries that store descriptor fd, and those that store watch wd.
HoldersOf(fd) == {k \in 1..Len(watches) : watches[k].fd = fd}

KeepersOf(wd) == {k \in 1..Len(watches) : watches[k].watch_desc = wd}

\* C20 (no descriptor or subscription leak): in every state, every open
\* file descriptor is stored in the fd field of exactly one entry, every
\* kernel watch is stored in the watch_desc field of some entry, and no more
\* descriptors are open than there are FileWatch entries.
C20_NoLeak_Claim ==
    /\ \A fd \in DOMAIN fdtab : Cardinality(HoldersOf(fd)) = 1
    /\ \A wd \in DOMAIN kwatch : KeepersOf(wd) # {}
    /\ Cardinality(DOMAIN fdtab) <= Cardinality(FileEntries)

====
